---- MODULE Spec2Model ----
(***************************************************************************)
(* Model of the elevator control system of src/main.c (MSP430).            *)
(*                                                                         *)
(* The program is one interrupt handler, WDT_interval_handler, run to      *)
(* completion on every watchdog interval.  It polls the limit switches,    *)
(* the in-elevator buttons and the on-tower buttons (in that order), and   *)
(* then runs the state switch that drives the motor.                       *)
(*                                                                         *)
(* The program state is the five globals of lines 69-73 together with the  *)
(* output registers the handlers write: the two motor direction bits of    *)
(* P2OUT, the PWM compare register TA0CCR1 and the three seven-segment     *)
(* address bits of P1OUT.  The handlers are operators over a record of     *)
(* that state; the action WDT_interval_handler composes them as the code   *)
(* does.  Between two intervals the CPU is off (LPM0).  The variable tick  *)
(* records, from the return of the handler until the CPU is asleep again,  *)
(* what the interval sampled and the state between the handler calls, so   *)
(* that properties of one handler inside an interval can be stated.        *)
(* The variable walk belongs to the environment: it counts the intervals   *)
(* of a run of the car straight to its target (SpecWalk) and is not used   *)
(* otherwise.                                                              *)
(***************************************************************************)
EXTENDS Integers, FiniteSets, Sequences, TLC

VARIABLES state, current_floor, called_floor, destination, dest_direction,
          UPCTL, DNCTL, TA0CCR1, SEVENSEG, tick, walk

vars == <<state, current_floor, called_floor, destination, dest_direction,
          UPCTL, DNCTL, TA0CCR1, SEVENSEG, tick, walk>>

\* ---------------------------------------------------------------- constants

\* duty cycle settings (out of 1000)
UP_DUTY_CYCLE == 400
DN_DUTY_CYCLE == 300
\* default PWM length set by init_motor_control
DEFAULT_DUTY_CYCLE == 500

\* on-tower call button addresses
F1_UP == 7
F2_DN == 6
F2_UP == 5
F3_DN == 4
F3_UP == 3
F4_DN == 2

\* value of a char global that was never assigned ('\0')
NUL == "nul"

States == {"i", "x", "^", "v", "w", "u", "d"}

\* ------------------------------------------------------------ program state

\* the program state as one record, as the handlers see it
Cur ==
  [state |-> state, current_floor |-> current_floor,
   called_floor |-> called_floor, destination |-> destination,
   dest_direction |-> dest_direction,
   UPCTL |-> UPCTL, DNCTL |-> DNCTL, TA0CCR1 |-> TA0CCR1,
   SEVENSEG |-> SEVENSEG]

\* ------------------------------------------------- motor control functions

stop_motor(s) == [s EXCEPT !.UPCTL = TRUE, !.DNCTL = TRUE]

go_up(s) == [s EXCEPT !.UPCTL = TRUE, !.DNCTL = FALSE,
                      !.TA0CCR1 = UP_DUTY_CYCLE]

go_down(s) == [s EXCEPT !.UPCTL = FALSE, !.DNCTL = TRUE,
                        !.TA0CCR1 = DN_DUTY_CYCLE]

\* the motor command the H-bridge direction bits stand for
Intent(s) ==
  IF s.UPCTL /\ s.DNCTL THEN "Hold"
  ELSE IF s.UPCTL THEN "Up"
  ELSE IF s.DNCTL THEN "Down"
  ELSE "Off"

\* ------------------------------------------------------ 7-segment display

\* floors 1..4 are written to the three address bits; any other value
\* leaves them alone
update_display(s, floor) ==
  IF floor \in 1..4 THEN [s EXCEPT !.SEVENSEG = floor] ELSE s

\* -------------------------------------------------------- control handlers

\* First floor, up button
case_F1_UP(s) ==
  IF s.state = "x"
  THEN LET c == [s EXCEPT !.called_floor = 1, !.dest_direction = "u"]
       IN  IF c.current_floor # 1
           THEN [go_down(c) EXCEPT !.state = "v"]
           ELSE [c EXCEPT !.state = "w"]
  ELSE s

\* case F2_DN with the comparison of the third floor's cases
case_F2_DN_cmp3(s) ==
  IF s.state = "x"
  THEN LET c == [s EXCEPT !.called_floor = 2, !.dest_direction = "d"]
       IN  IF c.current_floor # 2
           THEN IF c.current_floor > 3
                THEN [go_down(c) EXCEPT !.state = "v"]
                ELSE [go_up(c) EXCEPT !.state = "^"]
           ELSE [c EXCEPT !.state = "w"]
  ELSE s

\* second floor, down button
case_F2_DN(s) ==
  IF s.state = "x"
  THEN LET c == [s EXCEPT !.called_floor = 2, !.dest_direction = "d"]
       IN  IF c.current_floor # 2
           THEN IF c.current_floor > 2
                THEN [go_down(c) EXCEPT !.state = "v"]
                ELSE [go_up(c) EXCEPT !.state = "^"]
           ELSE [c EXCEPT !.state = "w"]
  ELSE s

\* second floor, up button
case_F2_UP(s) ==
  IF s.state = "x"
  THEN LET c == [s EXCEPT !.called_floor = 2, !.dest_direction = "u"]
       IN  IF c.current_floor # 2
           THEN IF c.current_floor > 2
                THEN [go_down(c) EXCEPT !.state = "v"]
                ELSE [go_up(c) EXCEPT !.state = "^"]
           ELSE [c EXCEPT !.state = "w"]
  ELSE s

\* case F3_DN with the comparison turned round
case_F3_DN_lt(s) ==
  IF s.state = "x"
  THEN LET c == [s EXCEPT !.called_floor = 3, !.dest_direction = "d"]
       IN  IF c.current_floor # 3
           THEN IF c.current_floor < 3
                THEN [go_down(c) EXCEPT !.state = "v"]
                ELSE [go_up(c) EXCEPT !.state = "^"]
           ELSE [c EXCEPT !.state = "w"]
  ELSE s

\* third floor, down button
case_F3_DN(s) ==
  IF s.state = "x"
  THEN LET c == [s EXCEPT !.called_floor = 3, !.dest_direction = "d"]
       IN  IF c.current_floor # 3
           THEN IF c.current_floor > 3
                THEN [go_down(c) EXCEPT !.state = "v"]
                ELSE [go_up(c) EXCEPT !.state = "^"]
           ELSE [c EXCEPT !.state = "w"]
  ELSE s

\* case F3_UP without the test that the elevator is idle
case_F3_UP_unguarded(s) ==
  LET c == [s EXCEPT !.called_floor = 3, !.dest_direction = "u"]
  IN  IF c.current_floor # 3
      THEN IF c.current_floor > 3
           THEN [go_down(c) EXCEPT !.state = "v"]
           ELSE [go_up(c) EXCEPT !.state = "^"]
      ELSE [c EXCEPT !.state = "w"]

\* third floor, up button
case_F3_UP(s) ==
  IF s.state = "x"
  THEN LET c == [s EXCEPT !.called_floor = 3, !.dest_direction = "u"]
       IN  IF c.current_floor # 3
           THEN IF c.current_floor > 3
                THEN [go_down(c) EXCEPT !.state = "v"]
                ELSE [go_up(c) EXCEPT !.state = "^"]
           ELSE [c EXCEPT !.state = "w"]
  ELSE s

\* case F4_DN without the assignment of dest_direction
case_F4_DN_nodir(s) ==
  IF s.state = "x"
  THEN LET c == [s EXCEPT !.called_floor = 4]
       IN  IF c.current_floor # 4
           THEN [go_up(c) EXCEPT !.state = "^"]
           ELSE [c EXCEPT !.state = "w"]
  ELSE s

\* case F4_DN with the direction of the third floor's up button
case_F4_DN_up(s) ==
  IF s.state = "x"
  THEN LET c == [s EXCEPT !.called_floor = 4, !.dest_direction = "u"]
       IN  IF c.current_floor # 4
           THEN [go_up(c) EXCEPT !.state = "^"]
           ELSE [c EXCEPT !.state = "w"]
  ELSE s

\* fourth floor, down button
case_F4_DN(s) ==
  IF s.state = "x"
  THEN LET c == [s EXCEPT !.called_floor = 4, !.dest_direction = "d"]
       IN  IF c.current_floor # 4
           THEN [go_up(c) EXCEPT !.state = "^"]
           ELSE [c EXCEPT !.state = "w"]
  ELSE s

\* handles a call event requesting the elevator to a specific floor;
\* an address without a case (0 and 1) falls through the switch
handle_tower_button(s, addr) ==
  CASE addr = F1_UP -> case_F1_UP(s)
    [] addr = F2_DN -> case_F2_DN(s)
    [] addr = F2_UP -> case_F2_UP(s)
    [] addr = F3_DN -> case_F3_DN(s)
    [] addr = F3_UP -> case_F3_UP(s)
    [] addr = F4_DN -> case_F4_DN(s)
    [] OTHER -> s

\* handle_elev_button without the tests of dest_direction
handle_elev_button_anydir(s, addr) ==
  LET c == [s EXCEPT !.destination = addr + 1]
  IN  IF c.state = "w"
      THEN IF c.destination = c.current_floor
           THEN [c EXCEPT !.state = "w"]
           ELSE IF c.destination > c.current_floor
           THEN [c EXCEPT !.state = "u"]
           ELSE IF c.destination < c.current_floor
           THEN [c EXCEPT !.state = "d"]
           ELSE c
      ELSE c

\* handles the event where the passenger selected a destination floor;
\* destination is assigned before the state is looked at
handle_elev_button(s, addr) ==
  LET c == [s EXCEPT !.destination = addr + 1]
  IN  IF c.state = "w"
      THEN IF c.destination = c.current_floor
           THEN [c EXCEPT !.state = "w"]
           ELSE IF c.dest_direction = "u" /\ c.destination > c.current_floor
           THEN [c EXCEPT !.state = "u"]
           ELSE IF c.dest_direction = "d" /\ c.destination < c.current_floor
           THEN [c EXCEPT !.state = "d"]
           ELSE c
      ELSE c

\* handle_limit_switch without the stop at the structural limits
handle_limit_switch_nostop(s, addr) ==
  LET c == [s EXCEPT !.current_floor = addr + 1]
  IN  update_display(c, c.current_floor)

\* handle_limit_switch updating the display before current_floor is assigned
handle_limit_switch_stale_display(s, addr) ==
  LET c == [update_display(s, s.current_floor)
              EXCEPT !.current_floor = addr + 1]
  IN  IF c.current_floor = 1 \/ c.current_floor = 4
      THEN stop_motor(c) ELSE c

\* handle_limit_switch taking the address itself for the floor
handle_limit_switch_noinc(s, addr) ==
  LET c == [s EXCEPT !.current_floor = addr]
      m == IF c.current_floor = 1 \/ c.current_floor = 4
           THEN stop_motor(c) ELSE c
  IN  update_display(m, m.current_floor)

\* handles the event where a limit switch on the tower is depressed
handle_limit_switch(s, addr) ==
  LET c == [s EXCEPT !.current_floor = addr + 1]
      m == IF c.current_floor = 1 \/ c.current_floor = 4
           THEN stop_motor(c) ELSE c
  IN  update_display(m, m.current_floor)

\* ------------------------------------------- the state switch of the handler

\* case 'i' taking the power-on value 0 of current_floor for the first floor
state_i_le1(s) ==
  IF s.current_floor <= 1
  THEN [stop_motor(s) EXCEPT !.state = "x"]
  ELSE go_down(s)

\* 'i': initialize elevator position
state_i(s) ==
  IF s.current_floor = 1
  THEN [stop_motor(s) EXCEPT !.state = "x"]
  ELSE go_down(s)

\* 'x': elevator idle
state_x(s) == stop_motor(s)

\* case '^' going back to idle on arrival
state_call_up_idle(s) ==
  IF s.called_floor = s.current_floor
  THEN [stop_motor(s) EXCEPT !.state = "x"]
  ELSE go_up(s)

\* '^': going up to called floor
state_call_up(s) ==
  IF s.called_floor = s.current_floor
  THEN [stop_motor(s) EXCEPT !.state = "w"]
  ELSE go_up(s)

\* case 'v' comparing the destination instead of the called floor
state_call_down_dest(s) ==
  IF s.destination = s.current_floor
  THEN [stop_motor(s) EXCEPT !.state = "w"]
  ELSE go_down(s)

\* 'v': going down to called floor
state_call_down(s) ==
  IF s.called_floor = s.current_floor
  THEN [stop_motor(s) EXCEPT !.state = "w"]
  ELSE go_down(s)

\* case 'w' without its break, running on into case 'u'
state_w_fallthrough(s) ==
  LET m == stop_motor(s)
  IN  IF m.destination = m.current_floor
      THEN [stop_motor(m) EXCEPT !.state = "x"]
      ELSE go_up(m)

\* 'w': waiting for user input
state_w(s) == stop_motor(s)

\* case 'u' stopping one floor below the destination
state_u_early(s) ==
  IF s.destination <= s.current_floor + 1
  THEN [stop_motor(s) EXCEPT !.state = "x"]
  ELSE go_up(s)

\* 'u': going up with passenger
state_u(s) ==
  IF s.destination = s.current_floor
  THEN [stop_motor(s) EXCEPT !.state = "x"]
  ELSE go_up(s)

\* case 'd' comparing the called floor instead of the destination
state_d_called(s) ==
  IF s.called_floor = s.current_floor
  THEN [stop_motor(s) EXCEPT !.state = "x"]
  ELSE go_down(s)

\* 'd': going down with passenger
state_d(s) ==
  IF s.destination = s.current_floor
  THEN [stop_motor(s) EXCEPT !.state = "x"]
  ELSE go_down(s)

handle_system_state(s) ==
  CASE s.state = "i" -> state_i(s)
    [] s.state = "x" -> state_x(s)
    [] s.state = "^" -> state_call_up(s)
    [] s.state = "v" -> state_call_down(s)
    [] s.state = "w" -> state_w(s)
    [] s.state = "u" -> state_u(s)
    [] s.state = "d" -> state_d(s)
    [] OTHER -> s

\* ------------------------------------------------------------ polled inputs

\* what one poll of an encoder reads: the enable bit and, when it is set,
\* the address bits (the address is not read when the enable bit is clear)
NoInput == [en |-> FALSE, addr |-> 0]

LimitInputs == {NoInput} \cup {[en |-> TRUE, addr |-> a] : a \in 0..3}
ElevInputs  == {NoInput} \cup {[en |-> TRUE, addr |-> a] : a \in 0..3}
TowerInputs == {NoInput} \cup {[en |-> TRUE, addr |-> a] : a \in 0..7}

\* ------------------------------------------------------------------ actions

\* the record of an interval while the CPU sleeps: nothing sampled, and
\* every intermediate state is the state s the program rests in
Asleep(s) ==
  [ran |-> FALSE, limit |-> NoInput, elev |-> NoInput, tower |-> NoInput,
   pre |-> s, afterLimit |-> s, afterElev |-> s, afterTower |-> s]

\* no run of the car to its target is being counted
NoWalk == [on |-> FALSE, from |-> "i", d |-> 0, n |-> 0]

\* state after the globals' initializers and the init_* functions of main;
\* the output bits of P1OUT and P2OUT are not written before the first
\* interval and keep whatever they held at power-on
Init ==
  /\ state = "i"
  /\ current_floor = 0
  /\ called_floor = 0
  /\ destination = 0
  /\ dest_direction = NUL
  /\ UPCTL \in BOOLEAN
  /\ DNCTL \in BOOLEAN
  /\ TA0CCR1 = DEFAULT_DUTY_CYCLE
  /\ SEVENSEG \in 0..7
  /\ tick = Asleep(Cur)
  /\ walk = NoWalk

\* the interrupt handler polling the limit switches after the buttons
WDT_interval_handler_limit_last(limit, elev, tower) ==
  LET s0 == Cur
      s1 == IF elev.en THEN handle_elev_button(s0, elev.addr) ELSE s0
      s2 == IF tower.en THEN handle_tower_button(s1, tower.addr) ELSE s1
      s3 == IF limit.en THEN handle_limit_switch(s2, limit.addr) ELSE s2
      s4 == handle_system_state(s3)
  IN  /\ ~tick.ran
      /\ state' = s4.state
      /\ current_floor' = s4.current_floor
      /\ called_floor' = s4.called_floor
      /\ destination' = s4.destination
      /\ dest_direction' = s4.dest_direction
      /\ UPCTL' = s4.UPCTL
      /\ DNCTL' = s4.DNCTL
      /\ TA0CCR1' = s4.TA0CCR1
      /\ SEVENSEG' = s4.SEVENSEG
      /\ tick' = [ran |-> TRUE, limit |-> limit, elev |-> elev,
                  tower |-> tower, pre |-> s0, afterLimit |-> s3,
                  afterElev |-> s1, afterTower |-> s2]

\* the interrupt handler polling the tower buttons before the in-elevator
\* buttons
WDT_interval_handler_tower_first(limit, elev, tower) ==
  LET s0 == Cur
      s1 == IF limit.en THEN handle_limit_switch(s0, limit.addr) ELSE s0
      s2 == IF tower.en THEN handle_tower_button(s1, tower.addr) ELSE s1
      s3 == IF elev.en THEN handle_elev_button(s2, elev.addr) ELSE s2
      s4 == handle_system_state(s3)
  IN  /\ ~tick.ran
      /\ state' = s4.state
      /\ current_floor' = s4.current_floor
      /\ called_floor' = s4.called_floor
      /\ destination' = s4.destination
      /\ dest_direction' = s4.dest_direction
      /\ UPCTL' = s4.UPCTL
      /\ DNCTL' = s4.DNCTL
      /\ TA0CCR1' = s4.TA0CCR1
      /\ SEVENSEG' = s4.SEVENSEG
      /\ tick' = [ran |-> TRUE, limit |-> limit, elev |-> elev,
                  tower |-> tower, pre |-> s0, afterLimit |-> s1,
                  afterElev |-> s3, afterTower |-> s2]

\* one run of the interrupt handler, from the sleeping CPU, with the three
\* polls reading limit, elev and tower
WDT_interval_handler(limit, elev, tower) ==
  LET s0 == Cur
      s1 == IF limit.en THEN handle_limit_switch(s0, limit.addr) ELSE s0
      s2 == IF elev.en THEN handle_elev_button(s1, elev.addr) ELSE s1
      s3 == IF tower.en THEN handle_tower_button(s2, tower.addr) ELSE s2
      s4 == handle_system_state(s3)
  IN  /\ ~tick.ran
      /\ state' = s4.state
      /\ current_floor' = s4.current_floor
      /\ called_floor' = s4.called_floor
      /\ destination' = s4.destination
      /\ dest_direction' = s4.dest_direction
      /\ UPCTL' = s4.UPCTL
      /\ DNCTL' = s4.DNCTL
      /\ TA0CCR1' = s4.TA0CCR1
      /\ SEVENSEG' = s4.SEVENSEG
      /\ tick' = [ran |-> TRUE, limit |-> limit, elev |-> elev,
                  tower |-> tower, pre |-> s0, afterLimit |-> s1,
                  afterElev |-> s2, afterTower |-> s3]

\* the handler has returned: main's LPM0 keeps the CPU off until the next
\* watchdog interval; the program state is left as it is
LPM0 ==
  /\ tick.ran
  /\ tick' = Asleep(Cur)
  /\ UNCHANGED <<state, current_floor, called_floor, destination,
                 dest_direction, UPCTL, DNCTL, TA0CCR1, SEVENSEG>>

Next ==
  \/ /\ \E limit \in LimitInputs, elev \in ElevInputs, tower \in TowerInputs :
          WDT_interval_handler(limit, elev, tower)
     /\ UNCHANGED walk
  \/ /\ LPM0
     /\ UNCHANGED walk

Spec == Init /\ [][Next]_vars

\* ------------------------------------------------------------------- typing

Snapshots ==
  [state : States, current_floor : 0..4, called_floor : 0..4,
   destination : 0..4, dest_direction : {NUL, "u", "d"},
   UPCTL : BOOLEAN, DNCTL : BOOLEAN,
   TA0CCR1 : {DEFAULT_DUTY_CYCLE, UP_DUTY_CYCLE, DN_DUTY_CYCLE},
   SEVENSEG : 0..7]

TypeOK ==
  /\ Cur \in Snapshots
  /\ tick.ran \in BOOLEAN
  /\ tick.limit \in LimitInputs
  /\ tick.elev \in ElevInputs
  /\ tick.tower \in TowerInputs
  /\ tick.pre \in Snapshots
  /\ tick.afterLimit \in Snapshots
  /\ tick.afterElev \in Snapshots
  /\ tick.afterTower \in Snapshots

\* ------------------------------------------------------------------ reading

\* the floor and the direction each on-tower button calls for
CallButtons == {F1_UP, F2_DN, F2_UP, F3_DN, F3_UP, F4_DN}

ButtonFloor(addr) ==
  CASE addr = F1_UP -> 1
    [] addr = F2_DN -> 2
    [] addr = F2_UP -> 2
    [] addr = F3_DN -> 3
    [] addr = F3_UP -> 3
    [] addr = F4_DN -> 4

ButtonDirection(addr) ==
  IF addr \in {F1_UP, F2_UP, F3_UP} THEN "u" ELSE "d"

\* the motor command each state drives while the car is under way
UpStates == {"^", "u"}
DownStates == {"i", "v", "d"}
HoldStates == {"x", "w"}

\* ------------------------------------------------------------------- claims

\* C1: a tower call handled while the state is not idle ('x') is rejected:
\* handle_tower_button leaves state, called_floor and dest_direction as they
\* were, for every tower address.
C1_CallRejectedUnlessIdle ==
  (tick.ran /\ tick.tower.en /\ tick.afterElev.state # "x") =>
     /\ tick.afterTower.state = tick.afterElev.state
     /\ tick.afterTower.called_floor = tick.afterElev.called_floor
     /\ tick.afterTower.dest_direction = tick.afterElev.dest_direction

\* Scenario D: going up to a called floor, a button of another floor is read
C1_Witness ==
  /\ tick.ran
  /\ tick.tower.en /\ tick.tower.addr = F3_UP
  /\ tick.afterElev.state = "^"
  /\ tick.afterElev.called_floor = 4

\* C2: a tower call (f, dir) handled while idle is accepted: called_floor and
\* dest_direction become f and dir, and the interval ends waiting with the
\* motor held if f is the current floor, going up to the call if f is above
\* it and going down to the call if f is below it.
C2_CallAcceptedWhenIdle ==
  (tick.ran /\ tick.tower.en /\ tick.tower.addr \in CallButtons
     /\ tick.afterElev.state = "x") =>
    LET f   == ButtonFloor(tick.tower.addr)
        dir == ButtonDirection(tick.tower.addr)
        cf  == tick.afterElev.current_floor
    IN  /\ cf \in 1..4
        /\ tick.afterTower.called_floor = f
        /\ tick.afterTower.dest_direction = dir
        /\ called_floor = f
        /\ dest_direction = dir
        /\ current_floor = cf
        /\ (f = cf => state = "w" /\ Intent(Cur) = "Hold")
        /\ (f > cf => state = "^" /\ Intent(Cur) = "Up")
        /\ (f < cf => state = "v" /\ Intent(Cur) = "Down")

\* idle at the third floor, the down button of the second floor is read
C2_Witness ==
  /\ tick.ran
  /\ tick.tower.en /\ tick.tower.addr = F2_DN
  /\ tick.afterElev.state = "x"
  /\ tick.afterElev.current_floor = 3
  /\ state = "v"

\* C3: a selection handled while waiting ('w') starts the trip up only if
\* the call was for up and the selected floor is above the current floor,
\* and the trip down only if the call was for down and the selected floor is
\* below; any other selection leaves the state 'w'; the pending call is
\* unchanged either way.
C3_SelectionFollowsCallDirection ==
  (tick.ran /\ tick.elev.en /\ tick.afterLimit.state = "w") =>
    LET dest == tick.elev.addr + 1
        cf   == tick.afterLimit.current_floor
        dir  == tick.afterLimit.dest_direction
        up   == dir = "u" /\ dest > cf
        dn   == dir = "d" /\ dest < cf
    IN  /\ tick.afterElev.state \in {"w", "u", "d"}
        /\ (tick.afterElev.state = "u" => up)
        /\ (tick.afterElev.state = "d" => dn)
        /\ (~up /\ ~dn => tick.afterElev.state = "w")
        /\ state = tick.afterElev.state
        /\ tick.afterElev.called_floor = tick.afterLimit.called_floor
        /\ tick.afterElev.dest_direction = tick.afterLimit.dest_direction
        /\ called_floor = tick.afterLimit.called_floor
        /\ dest_direction = tick.afterLimit.dest_direction

\* Scenario C: waiting at floor 3 after the call (3, up), floor 1 is selected
C3_Witness ==
  /\ tick.ran
  /\ tick.elev.en /\ tick.elev.addr = 0
  /\ tick.afterLimit.state = "w"
  /\ tick.afterLimit.current_floor = 3
  /\ tick.afterLimit.dest_direction = "u"
  /\ state = "w"

\* C4: a selection handled while the state is not 'w' is ignored: it does
\* not change the state, and on a trip with a passenger ('u', 'd') it does
\* not change the destination the car is travelling to.
C4_SelectionIgnoredUnlessWaiting ==
  (tick.ran /\ tick.elev.en /\ tick.afterLimit.state # "w") =>
     /\ tick.afterElev.state = tick.afterLimit.state
     /\ (tick.afterLimit.state \in {"u", "d"} =>
           tick.afterElev.destination = tick.afterLimit.destination)

Edges ==
  { <<"i", "x">>,
    <<"x", "^">>, <<"x", "v">>, <<"x", "w">>,
    <<"^", "w">>, <<"v", "w">>,
    <<"w", "u">>, <<"w", "d">>,
    <<"u", "x">>, <<"d", "x">> }

\* C6: every step leaves the state alone or moves it along exactly one edge
\* of the state machine; in particular 'i' is never entered again, and from
\* a state with a request in service 'x' is reached only through 'w' and
\* then 'u' or 'd'.
C6_OneEdgePerInterval ==
  [][state' = state \/ <<state, state'>> \in Edges]_vars

\* an interval that took the last edge of a request, arriving with a passenger
C6_Witness ==
  /\ tick.ran
  /\ tick.pre.state = "u"
  /\ state = "x"

\* C7: an interval that starts in 'i' and ends with current_floor other than
\* 1 (0 included) stays in 'i' and drives the motor down; one that ends with
\* current_floor 1 goes to 'x' and holds the motor; no button handled in
\* that interval changes the state.
C7_Initializing ==
  (tick.ran /\ tick.pre.state = "i") =>
     /\ tick.afterLimit.state = "i"
     /\ tick.afterElev.state = "i"
     /\ tick.afterTower.state = "i"
     /\ (current_floor # 1 => state = "i" /\ Intent(Cur) = "Down")
     /\ (current_floor = 1 => state = "x" /\ Intent(Cur) = "Hold")

\* Scenario A: after floor 2, the limit switch of floor 1 is read
C7_Witness ==
  /\ tick.ran
  /\ tick.pre.state = "i"
  /\ tick.pre.current_floor = 2
  /\ Intent(tick.pre) = "Down"
  /\ tick.limit.en /\ tick.limit.addr = 0
  /\ state = "x"

\* C8: when the state switch runs in '^' (resp. 'v'), the interval ends in
\* 'w' with the motor held if current_floor is called_floor, and otherwise
\* in the same state with the motor going up (resp. down).
C8_MovingToCall ==
  (tick.ran /\ tick.afterTower.state \in {"^", "v"}) =>
     IF current_floor = called_floor
     THEN state = "w" /\ Intent(Cur) = "Hold"
     ELSE /\ state = tick.afterTower.state
          /\ Intent(Cur) = IF state = "^" THEN "Up" ELSE "Down"

\* Scenario B: going up to the call of floor 3, its limit switch is read
C8_Witness ==
  /\ tick.ran
  /\ tick.pre.state = "^"
  /\ tick.pre.current_floor = 2
  /\ called_floor = 3
  /\ tick.limit.en /\ tick.limit.addr = 2
  /\ state = "w"

\* C9: when the state switch runs in 'u' (resp. 'd'), the interval ends in
\* 'x' with the motor held if current_floor is destination, and otherwise in
\* the same state with the motor going up (resp. down).
C9_MovingToDestination ==
  (tick.ran /\ tick.afterTower.state \in {"u", "d"}) =>
     IF current_floor = destination
     THEN state = "x" /\ Intent(Cur) = "Hold"
     ELSE /\ state = tick.afterTower.state
          /\ Intent(Cur) = IF state = "u" THEN "Up" ELSE "Down"

\* going down with a passenger to floor 1, its limit switch is read
C9_Witness ==
  /\ tick.ran
  /\ tick.pre.state = "d"
  /\ tick.pre.current_floor = 2
  /\ destination = 1
  /\ tick.limit.en /\ tick.limit.addr = 0
  /\ state = "x"

\* a call is held when a called floor or a direction is stored
PendingCallHeld == called_floor # 0 \/ dest_direction # NUL

\* C10 as stated: a pending call is held exactly in '^', 'v' and 'w'; the
\* arrival with the passenger has cleared it.
C10_PendingCallIffServingCall ==
  PendingCallHeld <=> state \in {"^", "v", "w"}

\* C10 amended: in '^', 'v' and 'w' a pending call is held, called_floor in
\* 1..4 with direction up or down, and in 'i' none is (called_floor 0, no
\* direction); nothing is ever cleared: 'u' and 'd' still hold the call, and
\* the arrival from 'u' or 'd' in 'x' leaves called_floor, dest_direction
\* and destination as they were during the trip.
C10_PendingCallKept ==
  /\ state \in {"^", "v", "w", "u", "d"} =>
       called_floor \in 1..4 /\ dest_direction \in {"u", "d"}
  /\ state = "i" => called_floor = 0 /\ dest_direction = NUL
  /\ (tick.ran /\ tick.afterTower.state \in {"u", "d"} /\ state = "x") =>
       /\ called_floor = tick.afterTower.called_floor
       /\ dest_direction = tick.afterTower.dest_direction
       /\ destination = tick.afterTower.destination
       /\ called_floor \in 1..4
       /\ dest_direction \in {"u", "d"}
       /\ destination \in 1..4

\* the car arrives at floor 4 with the passenger of the call (2, up)
C10_Witness ==
  /\ tick.ran
  /\ tick.afterTower.state = "u"
  /\ state = "x"
  /\ called_floor = 2
  /\ dest_direction = "u"
  /\ destination = 4

\* C11: an interval that starts in 'x' or 'w' and samples no limit switch,
\* no in-elevator button and no tower button ends in the same state with
\* called_floor, dest_direction and destination unchanged and the motor
\* held; the state it ends in is again 'x' or 'w', so this holds for any
\* number of such intervals.
C11_QuietIntervalsHold ==
  (tick.ran /\ ~tick.limit.en /\ ~tick.elev.en /\ ~tick.tower.en
     /\ tick.pre.state \in {"x", "w"}) =>
     /\ state = tick.pre.state
     /\ called_floor = tick.pre.called_floor
     /\ dest_direction = tick.pre.dest_direction
     /\ destination = tick.pre.destination
     /\ Intent(Cur) = "Hold"

\* a quiet interval while waiting at floor 2 with floor 3 last selected
C11_Witness ==
  /\ tick.ran
  /\ ~tick.limit.en /\ ~tick.elev.en /\ ~tick.tower.en
  /\ tick.pre.state = "w"
  /\ tick.pre.current_floor = 2
  /\ tick.pre.destination = 3
  /\ state = "w"

\* C13: current_floor is written by the limit-switch handler only: an
\* interval that samples no limit switch ends with the current_floor it
\* started with, whatever buttons it samples and whatever the state does;
\* an interval that samples one ends with current_floor the sensed floor, in
\* every state, and with the display showing it.
C13_CurrentFloorFromLimitSwitchOnly ==
  /\ (tick.ran /\ ~tick.limit.en) =>
        /\ current_floor = tick.pre.current_floor
        /\ SEVENSEG = tick.pre.SEVENSEG
  /\ (tick.ran /\ tick.limit.en) =>
        /\ tick.afterLimit.current_floor = tick.limit.addr + 1
        /\ current_floor = tick.limit.addr + 1
        /\ tick.afterLimit.SEVENSEG = tick.limit.addr + 1
        /\ SEVENSEG = current_floor

\* the limit switch of floor 3 is read on the way up from floor 2
C13_Witness ==
  /\ tick.ran
  /\ tick.limit.en /\ tick.limit.addr = 2
  /\ tick.pre.current_floor = 2
  /\ tick.pre.state = "^"
  /\ current_floor = 3
  /\ SEVENSEG = 3

\* C14: in an interval that samples a limit switch, the sensed floor is the
\* one every later decision of the interval uses: a call accepted from 'x'
\* picks 'w', '^' or 'v' by it, a selection handled in 'w' is tested against
\* it, and the arrival tests of the state switch compare it.
C14_PositionAppliedFirst ==
  (tick.ran /\ tick.limit.en) =>
    LET cf == tick.limit.addr + 1
    IN  /\ (tick.tower.en /\ tick.tower.addr \in CallButtons
              /\ tick.pre.state = "x") =>
             LET f == ButtonFloor(tick.tower.addr)
             IN  state = IF f = cf THEN "w" ELSE IF f > cf THEN "^" ELSE "v"
        /\ (tick.elev.en /\ tick.pre.state = "w") =>
             LET dest == tick.elev.addr + 1
                 dir  == tick.pre.dest_direction
             IN  state = IF dir = "u" /\ dest > cf THEN "u"
                         ELSE IF dir = "d" /\ dest < cf THEN "d"
                         ELSE "w"
        /\ (tick.pre.state \in {"^", "v"}) =>
             (state = "w" <=> tick.pre.called_floor = cf)
        /\ (tick.pre.state \in {"u", "d"}) =>
             (state = "x" <=> destination = cf)
        /\ (tick.pre.state = "i") => (state = "x" <=> cf = 1)

\* idle with floor 4 held, floor 2 is sensed and floor 3 is called in the
\* same interval: the car goes up to the call
C14_Witness ==
  /\ tick.ran
  /\ tick.limit.en /\ tick.limit.addr = 1
  /\ tick.tower.en /\ tick.tower.addr = F3_UP
  /\ tick.pre.state = "x"
  /\ tick.pre.current_floor = 4
  /\ state = "^"

\* C19: the in-elevator button is handled before the tower button and both
\* before the state switch: a selection sampled in the interval in which
\* the car arrives at the called floor, or in which a call for the current
\* floor is accepted, is dropped and the interval ends in 'w'; a tower call
\* sampled in the interval in which the car arrives at its destination is
\* rejected and the interval ends in 'x' with the call of the request served.
C19_EventsSeeStateBeforeSwitch ==
  /\ (tick.ran /\ tick.elev.en /\ tick.pre.state \in {"^", "v"}
        /\ current_floor = called_floor) => state = "w"
  /\ (tick.ran /\ tick.elev.en /\ tick.tower.en
        /\ tick.tower.addr \in CallButtons /\ tick.pre.state = "x"
        /\ ButtonFloor(tick.tower.addr) = current_floor) =>
          /\ state = "w"
          /\ called_floor = ButtonFloor(tick.tower.addr)
  /\ (tick.ran /\ tick.tower.en /\ tick.pre.state \in {"u", "d"}
        /\ current_floor = destination) =>
          /\ state = "x"
          /\ called_floor = tick.pre.called_floor
          /\ dest_direction = tick.pre.dest_direction

\* idle at floor 2, the up button of floor 2 and the selection of floor 3
\* are sampled together
C19_Witness ==
  /\ tick.ran
  /\ tick.pre.state = "x"
  /\ current_floor = 2
  /\ tick.tower.en /\ tick.tower.addr = F2_UP
  /\ tick.elev.en /\ tick.elev.addr = 2
  /\ state = "w"
  /\ destination = 3

\* the calls the six tower buttons stand for
Calls ==
  { <<1, "u">>, <<2, "d">>, <<2, "u">>, <<3, "d">>, <<3, "u">>, <<4, "d">> }

\* C18: the call held is always one of (1,up), (2,down), (2,up), (3,down),
\* (3,up), (4,down), or none; a tower address without a button changes
\* nothing; so whenever the machine waits ('w') at the called floor, some
\* in-elevator button is accepted and starts the trip ('u' or 'd').
C18_WaitingIsNoDeadEnd ==
  /\ <<called_floor, dest_direction>> \in Calls \cup { <<0, NUL>> }
  /\ (tick.ran /\ tick.tower.en /\ tick.tower.addr \notin CallButtons) =>
        tick.afterTower = tick.afterElev
  /\ (state = "w" /\ current_floor = called_floor) =>
        \E addr \in 0..3 : handle_elev_button(Cur, addr).state \in {"u", "d"}

\* waiting at the top floor after its down button called the car
C18_Witness ==
  /\ state = "w"
  /\ current_floor = 4
  /\ called_floor = 4
  /\ dest_direction = "d"
  /\ handle_elev_button(Cur, 0).state = "d"

\* C20: outside 'i' current_floor is a floor, 1..4; the power-on value 0 is
\* only seen in 'i'; the called floor compared in '^', 'v' and 'w' and the
\* destination compared in 'u' and 'd' are floors 1..4 too.
C20_FloorsInRange ==
  /\ current_floor \in 0..4
  /\ state # "i" => current_floor \in 1..4
  /\ state \in {"^", "v", "w"} => called_floor \in 1..4
  /\ state \in {"u", "d"} => destination \in 1..4
  /\ (tick.ran /\ tick.afterTower.state \in {"^", "v"}) =>
        tick.afterTower.called_floor \in 1..4
  /\ (tick.ran /\ tick.afterTower.state \in {"u", "d"}) =>
        tick.afterTower.destination \in 1..4

\* idle after homing, a limit switch is read: floor 1 is the lowest reading
C20_Witness ==
  /\ tick.ran
  /\ tick.pre.state = "x"
  /\ tick.limit.en /\ tick.limit.addr = 0
  /\ state = "x"
  /\ current_floor = 1

\* ------------------------------------------- the car's way to its target

MovingStates == {"^", "v", "u", "d"}

\* the floor the arrival test of a moving state compares current_floor with
Target(s) ==
  IF s.state \in {"^", "v"} THEN s.called_floor ELSE s.destination

\* the state a moving state arrives in
Arrival(st) == IF st \in {"^", "v"} THEN "w" ELSE "x"

Distance(s) ==
  IF Target(s) >= s.current_floor
  THEN Target(s) - s.current_floor
  ELSE s.current_floor - Target(s)

\* the limit switch of the floor next to current_floor on the side of the
\* target
OneCloser(s) ==
  [en |-> TRUE,
   addr |-> IF Target(s) > s.current_floor
            THEN s.current_floor
            ELSE s.current_floor - 2]

\* any interval, while no run is counted
FreeStep ==
  /\ ~walk.on
  /\ Next

\* from a moving state at some distance of the target, the run begins
StartWalk ==
  /\ ~walk.on
  /\ ~tick.ran
  /\ state \in MovingStates
  /\ Distance(Cur) > 0
  /\ walk' = [on |-> TRUE, from |-> state, d |-> Distance(Cur), n |-> 0]
  /\ UNCHANGED <<state, current_floor, called_floor, destination,
                 dest_direction, UPCTL, DNCTL, TA0CCR1, SEVENSEG, tick>>

\* an interval of the run: the limit switch one floor closer to the target
\* is read, no button is
WalkTick ==
  /\ walk.on
  /\ walk.n < walk.d
  /\ WDT_interval_handler(OneCloser(Cur), NoInput, NoInput)
  /\ walk' = [walk EXCEPT !.n = @ + 1]

WalkSleep ==
  /\ walk.on
  /\ LPM0
  /\ UNCHANGED walk

NextWalk ==
  \/ FreeStep
  \/ StartWalk
  \/ WalkTick
  \/ WalkSleep

SpecWalk == Init /\ [][NextWalk]_vars

\* C12: on a run that starts in a moving state at distance d > 0 of its
\* target and reads, interval after interval, the limit switch one floor
\* closer and no button, the machine is still in that moving state after
\* fewer than d intervals, at the distance that is left, and in the arrival
\* state ('w' after '^' or 'v', 'x' after 'u' or 'd') after exactly d.
C12_ArrivalAfterDistance ==
  walk.on =>
    /\ walk.d > 0
    /\ walk.n <= walk.d
    /\ (walk.n < walk.d =>
          /\ state = walk.from
          /\ Distance(Cur) = walk.d - walk.n)
    /\ (walk.n = walk.d => state = Arrival(walk.from))

\* three floors up to a call, done
C12_Witness ==
  /\ walk.on
  /\ walk.from = "^"
  /\ walk.d = 3
  /\ walk.n = 3
  /\ tick.ran
  /\ state = "w"

\* ------------------------------------------ physically consistent readings

\* the limit switch of floor f
Reading(f) == [en |-> TRUE, addr |-> f - 1]

\* the floor the motor command of s drives the car to next, if there is one
AheadFloors(s) ==
  IF Intent(s) = "Up" /\ s.current_floor \in 1..3
  THEN {s.current_floor + 1}
  ELSE IF Intent(s) = "Down" /\ s.current_floor \in 2..4
  THEN {s.current_floor - 1}
  ELSE {}

\* what the limit-switch poll can read when the car moves as the motor was
\* last driven: nothing, the switch of the floor the car was last seen at,
\* or the switch of the next floor in the direction the motor has been
\* driven in since the last interval; before the first reading after
\* power-on the car may be met at any floor
PhysLimitInputs(s) ==
  IF s.current_floor = 0
  THEN LimitInputs
  ELSE {NoInput} \cup {Reading(s.current_floor)}
         \cup {Reading(f) : f \in AheadFloors(s)}

NextPhys ==
  \/ /\ \E limit \in PhysLimitInputs(Cur), elev \in ElevInputs,
           tower \in TowerInputs :
          WDT_interval_handler(limit, elev, tower)
     /\ UNCHANGED walk
  \/ /\ LPM0
     /\ UNCHANGED walk

SpecPhys == Init /\ [][NextPhys]_vars

\* C15: under physically consistent readings, once 'i' is left no interval
\* ends with the motor going up at floor 4 or going down at floor 1.
C15_NoDriveIntoLimits ==
  state # "i" =>
    /\ ~(Intent(Cur) = "Up" /\ current_floor = 4)
    /\ ~(Intent(Cur) = "Down" /\ current_floor = 1)

\* C17: under physically consistent readings, going up to a call the called
\* floor is above the car, going down to a call it is below, and the machine
\* waits for the selection at the called floor.
C17_CallAheadOfCar ==
  /\ state = "^" => called_floor > current_floor
  /\ state = "v" => called_floor < current_floor
  /\ state = "w" => current_floor = called_floor

\* the car arrives at floor 3 from above, called by the down button
C17_Witness ==
  /\ tick.ran
  /\ tick.pre.state = "v"
  /\ tick.pre.current_floor = 4
  /\ tick.limit.en /\ tick.limit.addr = 2
  /\ called_floor = 3
  /\ state = "w"

\* ------------------------------------------------------- the car advances

\* an interval of the handler under physically consistent readings
PhysTick ==
  /\ \E limit \in PhysLimitInputs(Cur), elev \in ElevInputs,
        tower \in TowerInputs :
       WDT_interval_handler(limit, elev, tower)
  /\ UNCHANGED walk

\* an interval in which the car, driven up or down, is read at the next floor
Advance ==
  /\ \E f \in AheadFloors(Cur), elev \in ElevInputs, tower \in TowerInputs :
       WDT_interval_handler(Reading(f), elev, tower)
  /\ UNCHANGED walk

\* the watchdog keeps interrupting and the handler keeps returning; a car
\* that is driven up below floor 4, or down above floor 1, again and again
\* reaches the next floor
SpecLive ==
  /\ Init
  /\ [][NextPhys]_vars
  /\ WF_vars(PhysTick)
  /\ WF_vars(LPM0 /\ UNCHANGED walk)
  /\ SF_vars(Advance)

\* C16: under physically consistent readings with a car that advances, a
\* machine on a trip with a passenger ('u' or 'd') eventually is idle again.
C16_RequestCompletes ==
  (state \in {"u", "d"}) ~> (state = "x")

====
